---------------------------- MODULE Spec2Model ----------------------------
(***************************************************************************)
(* A model of the two local fan-out channels of sui-core:                  *)
(*   CacheUpdateHandler  (crates/sui-core/src/cache_update_handler.rs)     *)
(*   TxHandler           (crates/sui-core/src/tx_handler.rs)               *)
(*                                                                         *)
(* The module holds two state machines over disjoint variables.            *)
(*   Spec / SpecShutdown : one handler after construction: its publish     *)
(*       queue, its connection registry behind the tokio Mutex, its accept *)
(*       task and its broadcast (dispatcher) task.  Which of the two       *)
(*       handlers it is, is chosen in Init (variable chan).                *)
(*   SpecEndpoint : the socket path of one channel and the handlers that   *)
(*       are constructed and dropped on it, one file-system call per step. *)
(***************************************************************************)
EXTENDS Integers, Sequences, FiniteSets, TLC

\* ------------------------------------------------------------- bounds
MaxMsgs == 2
MaxConns == 2
MaxHandlers == 2

Msgs == 1..MaxMsgs
Conns == 1..MaxConns
Handlers == 1..MaxHandlers

VARIABLES
    \* ---- the channel (one handler)
    chan,         \* "cache" (CacheUpdateHandler) or "tx" (TxHandler)
    handlerAlive, \* the handler value exists: &self can be borrowed, tx_sender is not dropped
    running,      \* CacheUpdateHandler.running (AtomicBool); unused by TxHandler
    rxClosed,     \* the mpsc receiver has been dropped (the queue is closed)
    queue,        \* messages in the unbounded channel, head first (message ids)
    enq,          \* history: enq[m] is whether message m serializes (m-th accepted send)
    calls,        \* history: number of publish calls made so far
    lastCall,     \* history: results of the last publish call and where the dispatcher was
    acceptPos,    \* position of the accept task
    pending,      \* the accepted stream the accept task holds while it waits for the lock
    nextConn,     \* next connection id the listener hands out
    lock,         \* owner of the registry Mutex: "free", "disp" or "accept"
    registry,     \* the Vec inside the Mutex (connections / conns), as a sequence
    dispPos,      \* position of the broadcast task
    curMsg,       \* the message of the pass in progress (0: none)
    cur,          \* the connection popped and being written (0: none)
    part,         \* write_all calls of send_to_connection already completed for cur
    active,       \* the local active_conns of send_to_all_connections
    lastPass,     \* history: the last message whose pass took the lock
    wire,         \* history: per connection, the chunks written to it, in order
    attempts,     \* history: attempts[c][m] = send_to_connection calls for m on c
    acceptedAt,   \* history: messages accepted by the queue when accept() returned c (-1: not yet)
    pushedAt,     \* history: lastPass when c was pushed to the registry (-1: not yet)
    failedAt,     \* history: the message whose write failed on c (0: none)
    taken,        \* history: the messages recv() has yielded, in order
    passStart,    \* history: the connections in the registry when the last pass locked it
    \* ---- the endpoint (handlers on one socket path)
    nsMode,       \* how TxHandler's name is bound: "fs" (the path itself) or "abstract"
    file,         \* what is at the socket path: NoFile, StaleFile or FileOf(h)
    hpc,          \* per handler: where it is in new() / drop()
    epRunning,    \* per handler: CacheUpdateHandler.running
    listening,    \* per handler: its listener exists (owned by its accept task)
    pre,          \* history: the path when new() started: "free", "live" or "stale" ("none": not started)
    afterDrop,    \* history: new() started when the only other handlers were dropped ones
    alone,        \* history: no other handler or task has taken a step since new() started
    \* ---- the frame of one message
    sections,     \* byte lengths of the serialized sections of the message (1 for cache, 2 for tx)
    frameOut,     \* what send_to_connection writes for it, in order
    \* ---- connection_count
    counted       \* history: the last result of connection_count and the registry length then

chanVars == <<chan, handlerAlive, running, rxClosed, queue, enq, calls, lastCall,
              acceptPos, pending, nextConn, lock, registry, dispPos, curMsg, cur,
              part, active, lastPass, wire, attempts, acceptedAt, pushedAt, failedAt,
              taken, passStart>>
epVars == <<nsMode, file, hpc, epRunning, listening, pre, afterDrop, alone>>
sideVars == <<sections, frameOut, counted>>
vars == <<chanVars, epVars, sideVars>>

\* ------------------------------------------------------------ helpers
Range(s) == {s[i] : i \in 1..Len(s)}
Last(s) == s[Len(s)]
Front(s) == SubSeq(s, 1, Len(s) - 1)

\* What the socket path names: nothing, a socket file left behind by a process
\* that is gone, or the socket file made by the bind of handler h.
NoFile == [st |-> "none", by |-> 0]
StaleFile == [st |-> "stale", by |-> 0]
FileOf(h) == [st |-> "bound", by |-> h]

\* write_all calls per frame: len_bytes + serialized (cache_update_handler.rs 202-203);
\* effects_len + effects + events_len + events (tx_handler.rs 190-193).
NumParts(k) == IF k = "cache" THEN 2 ELSE 4

\* Where the accept loop continues after one iteration: the cache loop re-reads
\* running (while running.load), the tx loop is an unconditional loop.
LoopTop(k) == IF k = "cache" THEN "check" ELSE "accepting"


\* ----------------------------------------------------- the publish queue
\* Mutant: send never reports the closed channel.
SendResult_AlwaysOk(closed) == "Ok"

\* mpsc::UnboundedSender::send (cache_update_handler.rs 122-123, tx_handler.rs
\* 90-91): an error exactly when the receiver half is gone.
SendResult(closed) == IF closed THEN "Err" ELSE "Ok"

\* Mutant: the message is put at the head of the queue.
QueueAfterSend_AtHead(q, m) == <<m>> \o q

\* The unbounded channel appends at the tail.
QueueAfterSend(q, m) == Append(q, m)

\* Mutant: the producer waits while the dispatcher holds the registry lock.
SendBlocks_OnLock(l, q) == l = "disp"

\* send on an unbounded channel is synchronous: it waits neither for the
\* registry lock l nor for room in the queue q.
SendBlocks(l, q) == FALSE

\* What the caller of the publish call gets back: notify_written discards the
\* result (let _ =) and returns (), send_tx_effects_and_events returns the
\* Result of queue_for_broadcast.
PublishResult(k, r) == IF k = "cache" THEN "unit" ELSE r

\* Mutant: the message is read but stays in the queue.
RestAfterRecv_Peek(q) == q

\* Mutant: recv yields the newest message.
NextMessage_Newest(q) == q[Len(q)]

\* receiver.recv(): the head of the queue, which leaves the queue.
NextMessage(q) == Head(q)
RestAfterRecv(q) == Tail(q)

\* Mutant: recv gives up as soon as the queue is empty.
RecvYieldsNone_WhenEmpty(q, alive) == q = <<>>

\* receiver.recv().await is None: the queue is empty and every sender (the
\* handler's tx_sender is the only one) has been dropped.
RecvYieldsNone(q, alive) == q = <<>> /\ ~alive

\* Mutant: a serialization error is not noticed and the pass goes ahead.
SerializeFails_Ignored(ok) == FALSE

\* bcs::to_bytes / bincode::serialize / serde_json::to_vec return Err for a
\* payload that does not serialize (ok is FALSE): `Err(_) => return`.
SerializeFails(ok) == ~ok

\* ------------------------------------------------- the registry Mutex
\* Mutant: the accept task pushes without holding the lock.
AcceptCanPush_NoLock(l) == TRUE

\* connections.lock().await in the accept task is granted at once exactly when
\* the Mutex is free; otherwise the task queues behind the holder.
AcceptCanPush(l) == l = "free"

\* Mutant: the guard is dropped before the writes (snapshot, then release).
GuardDuringPass_Released == "free"

\* let mut conns = connections.lock().await: the guard lives until the end of
\* send_to_all_connections, so the broadcast task owns the Mutex across every
\* write of the pass.
GuardDuringPass == "disp"

\* Dropping a guard hands the Mutex to the task already waiting for it (tokio's
\* Mutex is FIFO), else frees it.
ReleasedByDispatcher(apos) == IF apos = "locking" THEN "accept" ELSE "free"
ReleasedByAccept(dpos) == IF dpos = "locking" THEN "disp" ELSE "free"

\* Mutant: a failed write also throws away the survivors collected so far.
Survivors_DropOnError(a, c, ok) == IF ok THEN Append(a, c) ELSE <<>>

\* Mutant: a connection is kept whatever its write returned.
Survivors_KeepAll(a, c, ok) == Append(a, c)

\* if result.is_ok() { active_conns.push(conn) }
Survivors(a, c, ok) == IF ok THEN Append(a, c) ELSE a

\* Mutant: the survivors are not put back.
Installed_Nothing(a) == <<>>

\* *conns = active_conns
Installed(a) == a

\* --------------------------------------------------------------- Init
EndpointUnused ==
    /\ nsMode = "fs"
    /\ file = NoFile
    /\ hpc = [h \in Handlers |-> "unborn"]
    /\ epRunning = [h \in Handlers |-> FALSE]
    /\ listening = [h \in Handlers |-> FALSE]
    /\ pre = [h \in Handlers |-> "none"]
    /\ afterDrop = [h \in Handlers |-> FALSE]
    /\ alone = [h \in Handlers |-> FALSE]

\* The state new() leaves behind: empty registry, empty queue, both tasks spawned.
ChannelFresh ==
    /\ handlerAlive = TRUE
    /\ running = TRUE
    /\ rxClosed = FALSE
    /\ queue = <<>>
    /\ enq = <<>>
    /\ calls = 0
    /\ lastCall = [enq |-> "none", pub |-> "none", at |-> "none"]
    /\ acceptPos = LoopTop(chan)
    /\ pending = 0
    /\ nextConn = 1
    /\ lock = "free"
    /\ registry = <<>>
    /\ dispPos = "recv"
    /\ curMsg = 0
    /\ cur = 0
    /\ part = 0
    /\ active = <<>>
    /\ lastPass = 0
    /\ wire = [c \in Conns |-> <<>>]
    /\ attempts = [c \in Conns |-> [m \in Msgs |-> 0]]
    /\ acceptedAt = [c \in Conns |-> -1]
    /\ pushedAt = [c \in Conns |-> -1]
    /\ failedAt = [c \in Conns |-> 0]
    /\ taken = <<>>
    /\ passStart = {}

\* No frame is being looked at and connection_count has not been called.
NoCount == [ret |-> -1, len |-> -1]

SideUnused ==
    /\ sections = <<>>
    /\ frameOut = <<>>
    /\ counted = NoCount

Init ==
    /\ chan \in {"cache", "tx"}
    /\ ChannelFresh
    /\ EndpointUnused
    /\ SideUnused

\* ------------------------------------------------------ producer side
\* notify_written / send_tx_effects_and_events -> queue_for_broadcast.
\* ok: whether the payload will serialize in send_to_all_connections.
Publish(ok) ==
    /\ handlerAlive
    /\ calls < MaxMsgs
    /\ ~SendBlocks(lock, queue)
    /\ LET r == SendResult(rxClosed) IN
         /\ calls' = calls + 1
         /\ lastCall' = [enq |-> r, pub |-> PublishResult(chan, r), at |-> dispPos]
         /\ IF r = "Ok"
              THEN /\ enq' = Append(enq, ok)
                   /\ queue' = QueueAfterSend(queue, Len(enq) + 1)
              ELSE UNCHANGED <<enq, queue>>
    /\ UNCHANGED <<chan, taken, handlerAlive, running, rxClosed, acceptPos, pending, nextConn,
                   lock, registry, dispPos, curMsg, cur, part, active, lastPass, passStart, wire,
                   attempts, acceptedAt, pushedAt, failedAt>>
    /\ UNCHANGED <<epVars, sideVars>>

\* Drop of the handler as the channel sees it: running.store(false) (cache only),
\* then the fields are dropped, tx_sender among them.
DropHandler ==
    /\ handlerAlive
    /\ handlerAlive' = FALSE
    /\ running' = IF chan = "cache" THEN FALSE ELSE running
    /\ UNCHANGED <<chan, taken, rxClosed, queue, enq, calls, lastCall, acceptPos, pending,
                   nextConn, lock, registry, dispPos, curMsg, cur, part, active,
                   lastPass, passStart, wire, attempts, acceptedAt, pushedAt, failedAt>>
    /\ UNCHANGED <<epVars, sideVars>>

\* -------------------------------------------------------- accept task
\* while running.load(Ordering::SeqCst)
AcceptLoopCheck ==
    /\ chan = "cache"
    /\ acceptPos = "check"
    /\ acceptPos' = IF running THEN "accepting" ELSE "exited"
    /\ UNCHANGED <<chan, taken, handlerAlive, running, rxClosed, queue, enq, calls, lastCall,
                   pending, nextConn, lock, registry, dispPos, curMsg, cur, part,
                   active, lastPass, passStart, wire, attempts, acceptedAt, pushedAt, failedAt>>
    /\ UNCHANGED <<epVars, sideVars>>

\* listener.accept().await returns Ok(stream); the task goes on to lock().await
\* in the same poll and pushes if the lock is granted, else waits for it.
AcceptOk ==
    /\ acceptPos = "accepting"
    /\ nextConn <= MaxConns
    /\ nextConn' = nextConn + 1
    /\ acceptedAt' = [acceptedAt EXCEPT ![nextConn] = Len(enq)]
    /\ IF AcceptCanPush(lock)
         THEN /\ registry' = Append(registry, nextConn)
              /\ pushedAt' = [pushedAt EXCEPT ![nextConn] = lastPass]
              /\ acceptPos' = LoopTop(chan)
              /\ UNCHANGED <<pending, lock>>
         ELSE /\ acceptPos' = "locking"
              /\ pending' = nextConn
              /\ UNCHANGED <<registry, pushedAt, lock>>
    /\ UNCHANGED <<chan, taken, handlerAlive, running, rxClosed, queue, enq, calls, lastCall,
                   dispPos, curMsg, cur, part, active, lastPass, passStart, wire, attempts,
                   failedAt>>
    /\ UNCHANGED <<epVars, sideVars>>

\* listener.accept().await returns Err: logged (cache) or ignored (tx), loop again.
AcceptErr ==
    /\ acceptPos = "accepting"
    /\ acceptPos' = LoopTop(chan)
    /\ UNCHANGED <<chan, taken, handlerAlive, running, rxClosed, queue, enq, calls, lastCall,
                   pending, nextConn, lock, registry, dispPos, curMsg, cur, part,
                   active, lastPass, passStart, wire, attempts, acceptedAt, pushedAt, failedAt>>
    /\ UNCHANGED <<epVars, sideVars>>

\* The waiting accept task has been handed the lock: push, drop the guard.
AcceptPush ==
    /\ acceptPos = "locking"
    /\ lock = "accept"
    /\ registry' = Append(registry, pending)
    /\ pushedAt' = [pushedAt EXCEPT ![pending] = lastPass]
    /\ pending' = 0
    /\ lock' = ReleasedByAccept(dispPos)
    /\ acceptPos' = LoopTop(chan)
    /\ UNCHANGED <<chan, taken, handlerAlive, running, rxClosed, queue, enq, calls, lastCall,
                   nextConn, dispPos, curMsg, cur, part, active, lastPass, passStart, wire,
                   attempts, acceptedAt, failedAt>>
    /\ UNCHANGED <<epVars, sideVars>>

\* ----------------------------------------------------- broadcast task
\* The loop of send_to_all_connections with r left in the Vec, a in active_conns,
\* for message m: pop the next connection and start send_to_connection on it, or,
\* when none is left, install the survivors and drop the guard.
Continue(r, a, m) ==
    IF r = <<>>
      THEN /\ registry' = Installed(a)
           /\ active' = <<>>
           /\ cur' = 0
           /\ part' = 0
           /\ curMsg' = 0
           /\ dispPos' = "recv"
           /\ lock' = ReleasedByDispatcher(acceptPos)
           /\ attempts' = attempts
      ELSE /\ registry' = Front(r)
           /\ active' = a
           /\ cur' = Last(r)
           /\ part' = 0
           /\ curMsg' = m
           /\ dispPos' = "writing"
           /\ lock' = GuardDuringPass
           /\ attempts' = [attempts EXCEPT ![Last(r)][m] = @ + 1]

\* connections.lock().await granted for message m: the pass begins.
StartPass(m) ==
    /\ lastPass' = m
    /\ passStart' = Range(registry)
    /\ Continue(registry, <<>>, m)

\* receiver.recv().await yields a message; it is serialized; on failure it is
\* skipped, otherwise the task asks for the lock.
Recv ==
    /\ dispPos = "recv"
    /\ queue # <<>>
    /\ LET m == NextMessage(queue) IN
         /\ queue' = RestAfterRecv(queue)
         /\ taken' = Append(taken, m)
         /\ IF SerializeFails(enq[m])
              THEN UNCHANGED <<lock, registry, dispPos, curMsg, cur, part, active,
                               lastPass, passStart, attempts>>
              ELSE IF lock = "free"
                     THEN StartPass(m)
                     ELSE /\ dispPos' = "locking"
                          /\ curMsg' = m
                          /\ UNCHANGED <<lock, registry, cur, part, active, lastPass, passStart,
                                         attempts>>
    /\ UNCHANGED <<chan, handlerAlive, running, rxClosed, enq, calls, lastCall,
                   acceptPos, pending, nextConn, wire, acceptedAt, pushedAt, failedAt>>
    /\ UNCHANGED <<epVars, sideVars>>

\* The waiting broadcast task has been handed the lock.
DispLocked ==
    /\ dispPos = "locking"
    /\ lock = "disp"
    /\ StartPass(curMsg)
    /\ UNCHANGED <<chan, taken, handlerAlive, running, rxClosed, queue, enq, calls, lastCall,
                   acceptPos, pending, nextConn, wire, acceptedAt, pushedAt, failedAt>>
    /\ UNCHANGED <<epVars, sideVars>>

\* One write_all of send_to_connection completes.
WriteOk ==
    /\ dispPos = "writing"
    /\ wire' = [wire EXCEPT ![cur] =
                  Append(@, [msg |-> curMsg, part |-> part + 1, full |-> TRUE])]
    /\ IF part + 1 < NumParts(chan)
         THEN /\ part' = part + 1
              /\ UNCHANGED <<lock, registry, dispPos, curMsg, cur, active, attempts>>
         ELSE Continue(registry, Survivors(active, cur, TRUE), curMsg)
    /\ UNCHANGED <<chan, taken, handlerAlive, running, rxClosed, queue, enq, calls, lastCall,
                   acceptPos, pending, nextConn, lastPass, passStart, acceptedAt, pushedAt,
                   failedAt>>
    /\ UNCHANGED <<epVars, sideVars>>

\* One write_all fails: `?` returns the error and the connection is dropped.
\* The chunk is recorded as not full: some of its bytes, or none, reached the peer.
WriteErr ==
    /\ dispPos = "writing"
    /\ wire' = [wire EXCEPT ![cur] =
                  Append(@, [msg |-> curMsg, part |-> part + 1, full |-> FALSE])]
    /\ failedAt' = [failedAt EXCEPT ![cur] = curMsg]
    /\ Continue(registry, Survivors(active, cur, FALSE), curMsg)
    /\ UNCHANGED <<chan, taken, handlerAlive, running, rxClosed, queue, enq, calls, lastCall,
                   acceptPos, pending, nextConn, lastPass, passStart, acceptedAt, pushedAt>>
    /\ UNCHANGED <<epVars, sideVars>>

\* receiver.recv().await yields None: every sender is gone and the queue is
\* empty. The loop ends and the receiver is dropped with the task.
DispExit ==
    /\ dispPos = "recv"
    /\ RecvYieldsNone(queue, handlerAlive)
    /\ dispPos' = "done"
    /\ rxClosed' = TRUE
    /\ UNCHANGED <<chan, taken, handlerAlive, running, queue, enq, calls, lastCall, acceptPos,
                   pending, nextConn, lock, registry, curMsg, cur, part, active,
                   lastPass, passStart, wire, attempts, acceptedAt, pushedAt, failedAt>>
    /\ UNCHANGED <<epVars, sideVars>>

\* The runtime the two tasks were spawned on (tokio::spawn in new()) shuts down
\* while the handler value is still held: both tasks are dropped where they
\* wait, and with them the listener, the receiver (and what is queued in it),
\* a held guard, and the streams the broadcast task had popped.
RuntimeShutdown ==
    /\ acceptPos # "cancelled"
    /\ acceptPos' = "cancelled"
    /\ dispPos' = IF dispPos = "done" THEN "done" ELSE "cancelled"
    /\ rxClosed' = TRUE
    /\ queue' = <<>>
    /\ lock' = "free"
    /\ pending' = 0
    /\ cur' = 0
    /\ part' = 0
    /\ active' = <<>>
    /\ UNCHANGED <<chan, taken, handlerAlive, running, enq, calls, lastCall, nextConn, registry,
                   curMsg, lastPass, passStart, wire, attempts, acceptedAt, pushedAt, failedAt>>
    /\ UNCHANGED <<epVars, sideVars>>

Next ==
    \/ \E ok \in BOOLEAN : Publish(ok)
    \/ DropHandler
    \/ AcceptLoopCheck
    \/ AcceptOk
    \/ AcceptErr
    \/ AcceptPush
    \/ Recv
    \/ DispLocked
    \/ WriteOk
    \/ WriteErr
    \/ DispExit

Spec == Init /\ [][Next]_vars

\* Scheduling: the runtime polls a task that has been woken. The broadcast task
\* is woken when a message is queued, when the Mutex is handed to it and when
\* every sender is gone; the accept task when the Mutex is handed to it. A
\* pending write is taken to complete or to fail in the end. Nothing makes a
\* client connect, a producer publish or an owner drop the handler.
BroadcastTaskStep == Recv \/ DispLocked \/ WriteOk \/ WriteErr \/ DispExit

Fairness ==
    /\ WF_vars(BroadcastTaskStep)
    /\ WF_vars(AcceptPush)

SpecFair == Spec /\ Fairness

NextShutdown == Next \/ RuntimeShutdown

SpecShutdown == Init /\ [][NextShutdown]_vars

SpecShutdownFair == SpecShutdown /\ Fairness

\* self.connections.try_lock(): Ok exactly when no task owns the Mutex.
TryLockSucceeds(l) == l = "free"

\* try_lock().map(|c| c.len()).unwrap_or(0)
CountResult(l, reg) == IF TryLockSucceeds(l) THEN Len(reg) ELSE 0

\* connection_count(&self), called by the owner of the handler at any moment.
ConnectionCount ==
    /\ handlerAlive
    /\ counted' = [ret |-> CountResult(lock, registry), len |-> Len(registry)]
    /\ UNCHANGED <<sections, frameOut>>
    /\ UNCHANGED <<chanVars, epVars>>

NextCount == Next \/ ConnectionCount

SpecCount == Init /\ [][NextCount]_vars


\* ------------------------------------------------- derived predicates
\* Some byte of message m has been written to connection c.
Touched(c, m) == \E i \in 1..Len(wire[c]) : wire[c][i].msg = m

\* The complete frame of message m (every part, whole) is among the chunks w
\* written to a connection of channel k; to connection c.
FrameIn(w, k, m) ==
    \A p \in 1..NumParts(k) :
        \E i \in 1..Len(w) : w[i] = [msg |-> m, part |-> p, full |-> TRUE]

FullFrame(c, m) == FrameIn(wire[c], chan, m)

\* The fan-out pass of message m has run to its end.
PassDone(m) == m \in 1..Len(enq) /\ enq[m] /\ m <= lastPass /\ curMsg # m

\* Connection c had no write failure before message m.
AliveFor(c, m) == failedAt[c] = 0 \/ m < failedAt[c]

\* The broadcast task has ended (its receiver is dropped).
DispTerminated == dispPos \in {"done", "cancelled"}

\* Everything the broadcast task and the registry hold, in one sequence.
Held == registry \o active \o (IF cur = 0 THEN <<>> ELSE <<cur>>)

\* ------------------------------------------------------------- claims

\* C1 (as stated): a connection is written exactly the frames of the messages
\* enqueued strictly after its accept completed and strictly before its first
\* write failure, and never a message enqueued before it connected.
C1_EnqueuedAfterAccept ==
    \A c \in Conns : \A m \in 1..Len(enq) :
        LET after == acceptedAt[c] >= 0 /\ m > acceptedAt[c]
        IN  /\ ~after => ~Touched(c, m)
            /\ ~AliveFor(c, m) => ~FullFrame(c, m)
            /\ (after /\ PassDone(m) /\ AliveFor(c, m)) => FullFrame(c, m)

\* C1 (amended): a connection is written exactly the frames of the messages
\* whose fan-out pass took the registry after the connection was appended to it
\* and before its first write failure; when a message was enqueued is immaterial.
C1_PassAfterAppend ==
    \A c \in Conns : \A m \in 1..Len(enq) :
        LET after == pushedAt[c] >= 0 /\ m > pushedAt[c]
        IN  /\ ~after => ~Touched(c, m)
            /\ ~AliveFor(c, m) => ~FullFrame(c, m)
            /\ (after /\ PassDone(m) /\ AliveFor(c, m)) => FullFrame(c, m)

\* C1 witness: one connection failed on message 1 and was written nothing of
\* message 2; another, appended after the pass of message 1, was written message
\* 2, which was already queued when its accept returned.
C1_Witness ==
    \E c, d \in Conns :
        /\ pushedAt[c] = 1
        /\ acceptedAt[c] = 2
        /\ FullFrame(c, 2)
        /\ ~Touched(c, 1)
        /\ failedAt[d] = 1
        /\ PassDone(2)
        /\ ~Touched(d, 2)

\* C2: on every connection the chunks written form whole frames in enqueue
\* order: a frame's parts follow each other, the next message's frame starts
\* only after the previous frame is complete, and nothing follows a chunk that
\* was cut short.
C2_FramesInOrder ==
    \A c \in Conns : \A i \in 1..Len(wire[c]) :
        IF i = 1
          THEN wire[c][i].part = 1
          ELSE /\ wire[c][i-1].full
               /\ \/ /\ wire[c][i].msg = wire[c][i-1].msg
                     /\ wire[c][i].part = wire[c][i-1].part + 1
                  \/ /\ wire[c][i].msg > wire[c][i-1].msg
                     /\ wire[c][i-1].part = NumParts(chan)
                     /\ wire[c][i].part = 1

\* C2 witness: one connection has been written the frames of two messages.
C2_Witness ==
    \E c \in Conns : FullFrame(c, 1) /\ FullFrame(c, 2)

\* C3: a connection whose write failed during the pass of message k is in
\* neither the registry nor the survivors from then on, and no write of a later
\* message (nor a second write of k) is attempted on it.
C3_FailedStaysOut ==
    \A c \in Conns :
        failedAt[c] # 0 =>
            /\ c \notin Range(Held)
            /\ attempts[c][failedAt[c]] = 1
            /\ \A m \in Msgs : m > failedAt[c] => attempts[c][m] = 0

\* C3 witness: a connection failed on message 1, another one survived, and the
\* pass of message 2 has run since, writing to the survivor.
C3_Witness ==
    \E c, d \in Conns :
        /\ failedAt[c] = 1
        /\ PassDone(2)
        /\ FullFrame(d, 1)
        /\ FullFrame(d, 2)
        /\ registry = <<d>>

\* C4: for every message and every connection, send_to_connection is called
\* at most once.
C4_AtMostOnce ==
    \A c \in Conns : \A m \in Msgs : attempts[c][m] <= 1

\* C4 witness: every message has been attempted on every connection.
C4_Witness ==
    \A c \in Conns : \A m \in Msgs : attempts[c][m] = 1

\* C5: the append and the drain-and-replace exclude each other. While a pass is
\* in progress the dispatcher owns the lock and everything it holds was appended
\* before the pass took the registry; every appended connection that has not
\* failed is held exactly once (in the registry when no pass is in progress).
C5_AppendExcludesPass ==
    LET live == {c \in Conns : pushedAt[c] >= 0 /\ failedAt[c] = 0} IN
    /\ dispPos = "writing" => lock = "disp"
    /\ dispPos = "writing" => \A c \in Range(Held) : pushedAt[c] < curMsg
    /\ dispPos # "writing" => active = <<>> /\ cur = 0
    /\ Range(Held) = live
    /\ Len(Held) = Cardinality(live)

\* C5 witness: a connection accepted during a pass waited for it; the pass has
\* installed its survivors and the append now owns the lock.
C5_Witness ==
    /\ lock = "accept"
    /\ pending # 0
    /\ dispPos = "recv"
    /\ registry # <<>>
    /\ PassDone(1)

\* C6: a publish call's send fails exactly when the broadcast task has ended;
\* while the task runs the send succeeds and the message joins the tail of the
\* queue.
C6_ErrIffTerminated ==
    [][calls' = calls + 1 =>
          IF DispTerminated
            THEN lastCall'.enq = "Err" /\ queue' = queue /\ enq' = enq
            ELSE /\ lastCall'.enq = "Ok"
                 /\ Len(enq') = Len(enq) + 1
                 /\ queue' = Append(queue, Len(enq'))]_vars

\* C6 witness: after one accepted message the task ended with the handler still
\* held, and a publish call failed.
C6_Witness ==
    /\ handlerAlive
    /\ DispTerminated
    /\ Len(enq) >= 1
    /\ lastCall.enq = "Err"

\* C7: whenever the handler is held (and the bound on calls is not reached) a
\* publish call can complete as the very next step, whatever the tasks are doing.
C7_EnqueueNeverBlocks ==
    (handlerAlive /\ calls < MaxMsgs) => ENABLED (\E ok \in BOOLEAN : Publish(ok))

\* C7 witness: a publish call was accepted while the dispatcher, holding the
\* lock, was inside a write that is still pending, with messages queued.
C7_Witness ==
    /\ dispPos = "writing"
    /\ lock = "disp"
    /\ lastCall.at = "writing"
    /\ lastCall.enq = "Ok"
    /\ queue # <<>>

\* C8 (as stated): neither publish call ever hands an error to its caller.
C8_PublishNeverErr == lastCall.pub # "Err"

\* First n message ids, in order.
UpTo(n) == [i \in 1..n |-> i]

\* C11: the queue drops no accepted message and keeps the enqueue order: what
\* recv() has yielded so far, followed by what is still queued, is always the
\* accepted messages in the order accepted, each once; and the queue is empty
\* again and again, so every accepted message is yielded in the end, also when
\* the handler is dropped first.
C11_TakenOnceInOrder ==
    /\ [](taken \o queue = UpTo(Len(enq)))
    /\ []<>(queue = <<>>)

\* C11 witness: the handler has been dropped while the second message is still
\* queued behind the pass of the first.
C11_Witness ==
    /\ ~handlerAlive
    /\ taken = <<1>>
    /\ queue = <<2>>
    /\ dispPos = "writing"

\* The accept task is inside an iteration: in accept(), or holding an accepted
\* stream that it is about to append.
InAccept(pos) == pos \in {"accepting", "locking"}

\* C14 (as stated): once the handler is dropped, an append ends the accept
\* task's last iteration (it starts no other accept), and a task that is outside
\* an iteration never starts one: at most the accept in flight at the drop is
\* appended.
C14_AcceptStopsAfterDrop ==
    [][~handlerAlive =>
          /\ pushedAt' # pushedAt => ~InAccept(acceptPos')
          /\ ~InAccept(acceptPos) => ~InAccept(acceptPos')]_vars

\* C15: a message that does not serialize is discarded on being taken: no write
\* is attempted for it on any connection, the step that takes it leaves the
\* lock, the registry, the wire and the producer's last result as they were and
\* the task back at recv(); a serializable message taken after it gets its pass
\* and reaches every connection registered before that pass and still alive.
C15_UnserializableSkipped ==
    /\ [](\A m \in 1..Len(enq) :
            /\ ~enq[m] => \A c \in Conns : ~Touched(c, m) /\ attempts[c][m] = 0
            /\ (enq[m] /\ m <= Len(taken) /\ m > 1 /\ ~enq[m - 1]) =>
                  /\ m <= lastPass \/ (dispPos = "locking" /\ curMsg = m)
                  /\ PassDone(m) =>
                        \A c \in Conns :
                            (pushedAt[c] >= 0 /\ pushedAt[c] < m /\ AliveFor(c, m))
                                => FullFrame(c, m))
    /\ [][(taken' # taken /\ ~enq[Last(taken')]) =>
             /\ queue' = Tail(queue)
             /\ dispPos' = "recv"
             /\ UNCHANGED <<lock, registry, wire, attempts, lastCall, lastPass, passStart,
                            curMsg, cur, active>>]_vars

\* C15 witness: message 1 did not serialize and was taken; message 2 has been
\* written in full to a connection that was accepted before either was published
\* and got nothing of message 1.
C15_Witness ==
    /\ Len(enq) = 2
    /\ ~enq[1]
    /\ enq[2]
    /\ taken = <<1, 2>>
    /\ \E c \in Conns :
          /\ acceptedAt[c] = 0
          /\ FullFrame(c, 2)
          /\ wire[c][1].msg = 2

\* C16: on the step that ends the pass of a message, the registry holds exactly
\* the connections it held when the pass locked it, less those whose write
\* failed in this pass, each once; and each of them has been written the whole
\* frame of the message, whatever happened to the others.
C16_FailureIsolated ==
    [][(dispPos' = "recv" /\ (dispPos = "writing" \/ lastPass' # lastPass)) =>
          LET failed == {c \in Conns : failedAt'[c] = lastPass'}
              kept == passStart' \ failed
          IN  /\ Range(registry') = kept
              /\ Len(registry') = Cardinality(kept)
              /\ \A c \in kept : FrameIn(wire'[c], chan, lastPass')]_vars

\* C16 witness: the pass of message 1 started with two connections; the one
\* popped first failed, the one popped after it was written the whole frame and
\* is the registry.
C16_Witness ==
    /\ dispPos = "recv"
    /\ lastPass = 1
    /\ passStart = {1, 2}
    /\ failedAt[2] = 1
    /\ registry = <<1>>
    /\ FullFrame(1, 1)
    /\ pushedAt[1] = 0
    /\ pushedAt[2] = 0

\* C17: while a write of the pass is pending the broadcast task owns the lock,
\* and any step that is not this write completing or failing leaves the pass
\* where it is: nothing is appended to the registry, the connection being
\* written stays held, no later message is taken and nothing else is written;
\* a write step itself writes the message of the pass to that connection only.
C17_GateHeldAcrossPass ==
    /\ [](dispPos = "writing" => lock = "disp" /\ cur # 0 /\ curMsg = lastPass)
    /\ [][dispPos = "writing" =>
             IF wire' = wire
               THEN UNCHANGED <<lock, registry, pushedAt, dispPos, curMsg, cur, part,
                                active, taken, failedAt>>
               ELSE /\ \A c \in Conns \ {cur} : wire'[c] = wire[c]
                    /\ Front(wire'[cur]) = wire[cur]
                    /\ Last(wire'[cur]).msg = curMsg
                    /\ pushedAt' = pushedAt]_vars

\* C17 witness: a write is pending while an accepted connection waits for the
\* lock and a later message waits in the queue.
C17_Witness ==
    /\ dispPos = "writing"
    /\ lock = "disp"
    /\ acceptPos = "locking"
    /\ pending # 0
    /\ pushedAt[pending] = -1
    /\ queue = <<curMsg + 1>>

\* C19 (as stated): connection_count returns the number of connections the
\* registry holds at the moment of the call, whoever owns the lock then.
C19_CountIsRegistryLength ==
    counted # NoCount => counted.ret = counted.len

\* The broadcast task has taken every accepted message and run the pass of
\* every one that serializes.
AllProcessed ==
    /\ queue = <<>>
    /\ Len(taken) = Len(enq)
    /\ \A m \in 1..Len(enq) : enq[m] => PassDone(m)

\* C20 (as stated): the broadcast task has ended only if the handler has been
\* dropped and every message has been processed, never while the handler is
\* held; and once the handler is dropped the task ends.
C20_EndsOnlyAfterDrop ==
    /\ [](DispTerminated => ~handlerAlive /\ AllProcessed)
    /\ []<>(handlerAlive \/ DispTerminated)

\* C20 (amended): broadcast_loop returns only if the handler has been dropped
\* and every message has been processed; while the handler is held the task can
\* end only by being cancelled with its runtime; and once the handler is dropped
\* the task ends.
C20_LoopReturnsOnlyAfterDrop ==
    /\ [](dispPos = "done" => ~handlerAlive /\ AllProcessed)
    /\ []((DispTerminated /\ handlerAlive) => acceptPos = "cancelled")
    /\ []<>(handlerAlive \/ DispTerminated)

\* C20 witness: the handler was dropped, both messages were taken and written,
\* and broadcast_loop has returned with the accept task still there.
C20_Witness ==
    /\ dispPos = "done"
    /\ ~handlerAlive
    /\ taken = <<1, 2>>
    /\ acceptPos # "cancelled"
    /\ \E c \in Conns : FullFrame(c, 1) /\ FullFrame(c, 2)


\* ======================================================== the endpoint
\* The socket path of one channel. CacheUpdateHandler binds the path itself (UnixListener::bind).
\* TxHandler binds the name path.to_ns_name::<GenericNamespaced>(): where that
\* name lives is decided by the interprocess crate for the platform, so both
\* outcomes are kept: nsMode = "fs" (the name is the file at the path, which is
\* what the fs::remove_file calls of TxHandler act on) and nsMode = "abstract"
\* (the name lives in the kernel's namespace and no file stands for it).

\* A live listener holds the path (or name).
PathBound ==
    IF nsMode = "abstract"
      THEN \E g \in Handlers : listening[g]
      ELSE file.st = "bound" /\ listening[file.by]

PathState == IF PathBound THEN "live" ELSE IF file # NoFile THEN "stale" ELSE "free"

\* std::os::unix::net::UnixStream::connect(socket_path) succeeds: the file is a
\* socket with a live listener behind it.
ConnectSucceeds == file.st = "bound" /\ listening[file.by]

\* bind succeeds: the address is free. A path is taken as long as a file is at
\* it; an abstract name as long as a listener holds it.
BindSucceeds ==
    IF nsMode = "abstract" THEN ~\E g \in Handlers : listening[g] ELSE file = NoFile

\* History kept at the first step of new() by handler h.
BeginNew(h) ==
    /\ pre' = [pre EXCEPT ![h] = PathState]
    /\ afterDrop' = [afterDrop EXCEPT ![h] =
                       /\ \E g \in Handlers \ {h} : hpc[g] = "dropped"
                       /\ \A g \in Handlers \ {h} : hpc[g] \in {"unborn", "dropped"}]
    /\ alone' = [g \in Handlers |-> g = h]

\* History kept at every later step of handler h or of its accept task.
Step(h) ==
    /\ alone' = [g \in Handlers |-> g = h /\ alone[g]]
    /\ UNCHANGED <<pre, afterDrop>>

EndpointInit ==
    /\ chan \in {"cache", "tx"}
    /\ ChannelFresh
    /\ nsMode \in (IF chan = "cache" THEN {"fs"} ELSE {"fs", "abstract"})
    /\ file \in {NoFile, StaleFile}
    /\ hpc = [h \in Handlers |-> "unborn"]
    /\ epRunning = [h \in Handlers |-> FALSE]
    /\ listening = [h \in Handlers |-> FALSE]
    /\ pre = [h \in Handlers |-> "none"]
    /\ afterDrop = [h \in Handlers |-> FALSE]
    /\ alone = [h \in Handlers |-> FALSE]
    /\ SideUnused

\* CacheUpdateHandler::new, is_socket_in_use: socket_path.exists()
CacheProbeExists(h) ==
    /\ chan = "cache"
    /\ hpc[h] = "unborn"
    /\ hpc' = [hpc EXCEPT ![h] = IF file = NoFile THEN "recheck" ELSE "connect"]
    /\ BeginNew(h)
    /\ UNCHANGED <<nsMode, file, epRunning, listening>>
    /\ UNCHANGED <<chanVars, sideVars>>

\* is_socket_in_use: UnixStream::connect; Ok means in use, and new() panics.
CacheProbeConnect(h) ==
    /\ hpc[h] = "connect"
    /\ hpc' = [hpc EXCEPT ![h] = IF ConnectSucceeds THEN "panicked" ELSE "recheck"]
    /\ Step(h)
    /\ UNCHANGED <<nsMode, file, epRunning, listening>>
    /\ UNCHANGED <<chanVars, sideVars>>

\* new(): if socket_path.exists()
CacheRecheck(h) ==
    /\ hpc[h] = "recheck"
    /\ hpc' = [hpc EXCEPT ![h] = IF file = NoFile THEN "bind" ELSE "unlink"]
    /\ Step(h)
    /\ UNCHANGED <<nsMode, file, epRunning, listening>>
    /\ UNCHANGED <<chanVars, sideVars>>

\* new(): std::fs::remove_file(&socket_path); a failure is only logged.
CacheUnlink(h) ==
    /\ hpc[h] = "unlink"
    /\ file' = NoFile
    /\ hpc' = [hpc EXCEPT ![h] = "bind"]
    /\ Step(h)
    /\ UNCHANGED <<nsMode, epRunning, listening>>
    /\ UNCHANGED <<chanVars, sideVars>>

\* TxHandler::new: let _ = fs::remove_file(path)
TxUnlink(h) ==
    /\ chan = "tx"
    /\ hpc[h] = "unborn"
    /\ file' = NoFile
    /\ hpc' = [hpc EXCEPT ![h] = "bind"]
    /\ BeginNew(h)
    /\ UNCHANGED <<nsMode, epRunning, listening>>
    /\ UNCHANGED <<chanVars, sideVars>>

\* UnixListener::bind(..).unwrap_or_else(panic) / create_tokio().expect(..): on
\* success the listener exists and goes to the accept task; new() returns.
Bind(h) ==
    /\ hpc[h] = "bind"
    /\ IF BindSucceeds
         THEN /\ hpc' = [hpc EXCEPT ![h] = "alive"]
              /\ file' = IF nsMode = "abstract" THEN file ELSE FileOf(h)
              /\ listening' = [listening EXCEPT ![h] = TRUE]
              /\ epRunning' = [epRunning EXCEPT ![h] = TRUE]
         ELSE /\ hpc' = [hpc EXCEPT ![h] = "panicked"]
              /\ UNCHANGED <<file, listening, epRunning>>
    /\ Step(h)
    /\ UNCHANGED nsMode
    /\ UNCHANGED <<chanVars, sideVars>>

\* Drop for CacheUpdateHandler: self.running.store(false)
CacheDropStore(h) ==
    /\ chan = "cache"
    /\ hpc[h] = "alive"
    /\ epRunning' = [epRunning EXCEPT ![h] = FALSE]
    /\ hpc' = [hpc EXCEPT ![h] = "drop_exists"]
    /\ Step(h)
    /\ UNCHANGED <<nsMode, file, listening>>
    /\ UNCHANGED <<chanVars, sideVars>>

\* Drop for CacheUpdateHandler: if self.socket_path.exists()
CacheDropExists(h) ==
    /\ hpc[h] = "drop_exists"
    /\ hpc' = [hpc EXCEPT ![h] = IF file = NoFile THEN "dropped" ELSE "drop_unlink"]
    /\ Step(h)
    /\ UNCHANGED <<nsMode, file, epRunning, listening>>
    /\ UNCHANGED <<chanVars, sideVars>>

\* Drop for CacheUpdateHandler: std::fs::remove_file(&self.socket_path)
CacheDropUnlink(h) ==
    /\ hpc[h] = "drop_unlink"
    /\ file' = NoFile
    /\ hpc' = [hpc EXCEPT ![h] = "dropped"]
    /\ Step(h)
    /\ UNCHANGED <<nsMode, epRunning, listening>>
    /\ UNCHANGED <<chanVars, sideVars>>

\* Drop for TxHandler: let _ = fs::remove_file(&self.path)
TxDrop(h) ==
    /\ chan = "tx"
    /\ hpc[h] = "alive"
    /\ file' = NoFile
    /\ hpc' = [hpc EXCEPT ![h] = "dropped"]
    /\ Step(h)
    /\ UNCHANGED <<nsMode, epRunning, listening>>
    /\ UNCHANGED <<chanVars, sideVars>>

\* The cache accept loop finds running false at its next check and returns: the
\* listener is dropped with the task. (The tx loop has no exit.)
ListenerExit(h) ==
    /\ chan = "cache"
    /\ listening[h]
    /\ ~epRunning[h]
    /\ listening' = [listening EXCEPT ![h] = FALSE]
    /\ Step(h)
    /\ UNCHANGED <<nsMode, file, hpc, epRunning>>
    /\ UNCHANGED <<chanVars, sideVars>>

NextEndpoint ==
    \E h \in Handlers :
        \/ CacheProbeExists(h)
        \/ CacheProbeConnect(h)
        \/ CacheRecheck(h)
        \/ CacheUnlink(h)
        \/ TxUnlink(h)
        \/ Bind(h)
        \/ CacheDropStore(h)
        \/ CacheDropExists(h)
        \/ CacheDropUnlink(h)
        \/ TxDrop(h)
        \/ ListenerExit(h)

SpecEndpoint == EndpointInit /\ [][NextEndpoint]_vars

\* new() of handler h has returned or panicked and nothing else has moved since
\* it started.
NewEndedAlone(h) == hpc[h] \in {"alive", "panicked"} /\ alone[h]

C10_RebindAfterDrop ==
    \A h \in Handlers :
        /\ hpc[h] = "dropped" => file # FileOf(h)
        /\ (NewEndedAlone(h) /\ afterDrop[h]) => hpc[h] = "alive"

\* Handlers whose new() returned and that have not been dropped, each owning a
\* listener bound for the path.
LiveHandlers == {h \in Handlers : hpc[h] = "alive" /\ listening[h]}

\* C12 (as stated): at most one live handler holds a listening endpoint for the
\* path, however the steps of two new() calls interleave.
C12_AtMostOneLive == Cardinality(LiveHandlers) <= 1

\* C13 (as stated): a step of handler h, in new() or in drop(), never removes
\* the socket file bound by another handler that is live; the files it removes
\* are its own or stale.
C13_RemovesOnlyOwnOrStale ==
    [][\A h \in Handlers :
          (/\ hpc'[h] # hpc[h]
           /\ file.st = "bound"
           /\ file.by # h
           /\ file.by \in LiveHandlers) => file' = file]_vars


\* ================================================= the frame of a message
\* Lengths are kept as their bytes, least significant first, so that the width
\* of usize and of u32 is the width the code has.
UsizeBytes == 8
U32Bytes == 4

\* Section lengths looked at: below 256^MaxSizeBytes, each byte from ByteDigits.
MaxSizeBytes == 5
ByteDigits == {0, 1, 255}

Sizes ==
    {d \in [1..UsizeBytes -> ByteDigits] : \A i \in 1..UsizeBytes : i > MaxSizeBytes => d[i] = 0}

\* serialized.len() as u32: the low four bytes of the usize.
AsU32(len) == [i \in 1..U32Bytes |-> len[i]]

\* u32::to_le_bytes, u32::to_be_bytes: the bytes in the order they are written.
ToLeBytes(u) == u
ToBeBytes(u) == [i \in 1..U32Bytes |-> u[U32Bytes + 1 - i]]

\* len_bytes (cache) / effects_len_bytes, events_len_bytes (tx)
LenBytes(k, len) == IF k = "cache" THEN ToLeBytes(AsU32(len)) ELSE ToBeBytes(AsU32(len))

\* One serialized section for cache (the object list), two for tx (effects, events).
NumSections(k) == IF k = "cache" THEN 1 ELSE 2

\* send_to_connection: for each section its length field, then its bytes.
RECURSIVE FrameOf(_, _)
FrameOf(k, secs) ==
    IF secs = <<>>
      THEN <<>>
      ELSE <<[kind |-> "len", bytes |-> LenBytes(k, Head(secs))],
             [kind |-> "data", size |-> Head(secs)]>> \o FrameOf(k, Tail(secs))

\* The length a reader takes from a 4-byte field of channel k (little-endian on
\* cache, big-endian on tx), as a usize.
FieldValue(k, bytes) ==
    [i \in 1..UsizeBytes |->
        IF i > U32Bytes THEN 0
        ELSE IF k = "cache" THEN bytes[i] ELSE bytes[U32Bytes + 1 - i]]

FrameInit ==
    /\ chan \in {"cache", "tx"}
    /\ ChannelFresh
    /\ EndpointUnused
    /\ sections \in [1..NumSections(chan) -> Sizes]
    /\ frameOut = <<>>
    /\ counted = NoCount

\* send_to_all_connections computes the length bytes and send_to_connection
\* writes the frame to a connection whose writes all succeed.
WriteFrame ==
    /\ frameOut = <<>>
    /\ frameOut' = FrameOf(chan, sections)
    /\ UNCHANGED <<sections, counted>>
    /\ UNCHANGED <<chanVars, epVars>>

SpecFrame == FrameInit /\ [][WriteFrame]_vars

\* C18 (as stated): in a written frame every length field, read in the byte
\* order of its channel, is the byte length of the section that follows it,
\* whatever that length is.
C18_LengthFieldExact ==
    frameOut # <<>> =>
        /\ Len(frameOut) = 2 * NumSections(chan)
        /\ \A i \in 1..NumSections(chan) :
              /\ frameOut[2 * i - 1].kind = "len"
              /\ frameOut[2 * i].kind = "data"
              /\ frameOut[2 * i].size = sections[i]
              /\ FieldValue(chan, frameOut[2 * i - 1].bytes) = frameOut[2 * i].size

=============================================================================
